---- MODULE Spec2Model ----
(***************************************************************************)
(* Model of src/src/minimax.js: the static evaluator (heuristic), the      *)
(* cutoff policy (isBaseCase), plain minimax, alpha-beta minimax and the   *)
(* decision wrapper.  All five are pure functions of a position object     *)
(* supplied by the game (nextStates(), nextMovePlayer, numLines()), so     *)
(* each is an operator computed as the code computes it, and one action    *)
(* per exported function applies it to the position under test.            *)
(*                                                                         *)
(* The search operators return, next to the number the code returns, the   *)
(* sequence of calls the evaluation makes, in call order.                  *)
(***************************************************************************)
EXTENDS Integers, Sequences, FiniteSets

VARIABLES
    tree,              \* the game below the position under test
    maximizingPlayer,  \* 'x' or 'o': the perspective argument
    op,                \* the exported function that was called, or "none"
    depth,             \* the depth argument of the call
    ret,               \* the value the call returned
    calls              \* the calls the evaluation made, in call order

vars == <<tree, maximizingPlayer, op, depth, ret, calls>>

\* ------------------------------------------------------------------ bounds
MaxNodes == 6
MaxDepth == 2
MaxCount == 2
LinedNodes == 4

\* -------------------------------------------------------- position objects
Players == {"x", "o"}
Lengths == {2, 3, 4}

Other(player) == IF player = "x" THEN "o" ELSE "x"

\* A board, as numLines sees it: the count of lines per player and length.
NoLines == [p \in Players |-> [n \in Lengths |-> 0]]
WithLine(board, player, number) ==
    [board EXCEPT ![player][number] = board[player][number] + 1]

AllBoards == [Players -> [Lengths -> 0..MaxCount]]

\* The boards the leaves of a searched game are drawn from.
LeafBoards == {NoLines, WithLine(NoLines, "x", 2), WithLine(NoLines, "x", 4)}

\* The same, and a board with a line of four and a line of two.
LinedBoards ==
    LeafBoards \cup {WithLine(WithLine(NoLines, "x", 4), "x", 2)}

\* Ordered trees of n positions, each written as the levels of its
\* positions in the order a depth-first walk meets them (position 1 is the
\* root).
TreeShapes(n) ==
    {lv \in [1..n -> 0..(n - 1)] :
        /\ lv[1] = 0
        /\ \A i \in 2..n : lv[i] >= 1 /\ lv[i] <= lv[i - 1] + 1}

KidsOf(lv, p) ==
    SelectSeq([j \in 1..Len(lv) |-> j],
              LAMBDA j : /\ j > p
                         /\ lv[j] = lv[p] + 1
                         /\ \A k \in (p + 1)..j : lv[k] > lv[p])

\* The game below a position: successors in the order nextStates() returns
\* them, the player to move (players alternate), and the lines on each board.
MakeTree(lv, first, lines) ==
    [level |-> lv,
     kids  |-> [p \in 1..Len(lv) |-> KidsOf(lv, p)],
     mover |-> [p \in 1..Len(lv) |-> IF lv[p] % 2 = 0 THEN first ELSE Other(first)],
     lines |-> lines]

LeavesOf(lv) == {p \in 1..Len(lv) : KidsOf(lv, p) = <<>>}
InnerOf(lv) == (1..Len(lv)) \ LeavesOf(lv)

\* The boards of a game: the leaves' as given, the inner positions' as given.
Boards(lv, innerLines, leafLines) ==
    [p \in 1..Len(lv) |->
        IF p \in DOMAIN leafLines THEN leafLines[p] ELSE innerLines[p]]

Position(t, id) == [tree |-> t, id |-> id]

nextStates(state) ==
    [j \in 1..Len(state.tree.kids[state.id]) |->
        Position(state.tree, state.tree.kids[state.id][j])]

nextMovePlayer(state) == state.tree.mover[state.id]

numLines(state, number, player) == state.tree.lines[state.id][player][number]

\* ---------------------------------------------------------------- helpers
MathMax(a, b) == IF a >= b THEN a ELSE b
MathMin(a, b) == IF a <= b THEN a ELSE b

RECURSIVE MaxOf(_)
MaxOf(values) ==
    IF Len(values) = 1 THEN values[1]
    ELSE MathMax(values[1], MaxOf(Tail(values)))

RECURSIVE MinOf(_)
MinOf(values) ==
    IF Len(values) = 1 THEN values[1]
    ELSE MathMin(values[1], MinOf(Tail(values)))

\* ------------------------------------------------------------- the program
DEPTH == 4

\* heuristic without the subtraction of the other player's advantage.
heuristicOwnLines(state, maxPlayer) ==
    numLines(state, 2, maxPlayer) * 100 ^ 2
    + numLines(state, 3, maxPlayer) * 100 ^ 3
    + numLines(state, 4, maxPlayer) * 100 ^ 4

heuristic(state, maxPlayer) ==
    LET minimizingPlayer == IF maxPlayer = "x" THEN "o" ELSE "x"
        advantageFunction(player) ==
            numLines(state, 2, player) * 100 ^ 2
            + numLines(state, 3, player) * 100 ^ 3
            + numLines(state, 4, player) * 100 ^ 4
    IN  advantageFunction(maxPlayer) - advantageFunction(minimizingPlayer)

\* isBaseCase without the depth test.
isBaseCaseNoDepth(state, d) ==
    Len(nextStates(state)) = 0

isBaseCase(state, d) ==
    LET possibleSuccessorStates == nextStates(state)
        numberPossibleSuccessorStates == Len(possibleSuccessorStates)
    IN  numberPossibleSuccessorStates = 0 \/ d = 0

\* A call of minimax: its arguments, whether it ended in the evaluator, and
\* the value it returned.
PlainCall(state, d, maxPlayer, leaf, value) ==
    [id |-> state.id, depth |-> d, maximizingPlayer |-> maxPlayer,
     leaf |-> leaf, value |-> value]

RECURSIVE minimax(_, _, _)

\* possibleStates.map(s => minimax(s, depth-1, maximizingPlayer)), from the
\* i-th successor on: the runs of the recursive calls, in order.
RECURSIVE mapMinimax(_, _, _, _)
mapMinimax(possibleStates, i, d, maxPlayer) ==
    IF i > Len(possibleStates) THEN <<>>
    ELSE <<minimax(possibleStates[i], d - 1, maxPlayer)>>
         \o mapMinimax(possibleStates, i + 1, d, maxPlayer)

RECURSIVE ValuesOf(_)
ValuesOf(runs) ==
    IF runs = <<>> THEN <<>> ELSE <<Head(runs).value>> \o ValuesOf(Tail(runs))

RECURSIVE CallsOf(_)
CallsOf(runs) ==
    IF runs = <<>> THEN <<>> ELSE Head(runs).calls \o CallsOf(Tail(runs))

\* minimax evaluating each position from the view of the player to move.
minimaxMoverView(state, d, maxPlayer) ==
    IF isBaseCase(state, d)
    THEN LET value == heuristic(state, nextMovePlayer(state))
         IN  [value |-> value,
              calls |-> <<PlainCall(state, d, maxPlayer, TRUE, value)>>]
    ELSE LET nextRuns == mapMinimax(nextStates(state), 1, d, maxPlayer)
             value == IF nextMovePlayer(state) = maxPlayer
                      THEN MaxOf(ValuesOf(nextRuns))
                      ELSE MinOf(ValuesOf(nextRuns))
         IN  [value |-> value,
              calls |-> <<PlainCall(state, d, maxPlayer, FALSE, value)>>
                        \o CallsOf(nextRuns)]

minimax(state, d, maxPlayer) ==
    IF isBaseCase(state, d)
    THEN LET value == heuristic(state, maxPlayer)
         IN  [value |-> value,
              calls |-> <<PlainCall(state, d, maxPlayer, TRUE, value)>>]
    ELSE LET possibleStates == nextStates(state)
             currentPlayer == nextMovePlayer(state)
             nextRuns == mapMinimax(possibleStates, 1, d, maxPlayer)
             nextValues == ValuesOf(nextRuns)
             value == IF currentPlayer = maxPlayer
                      THEN MaxOf(nextValues)
                      ELSE MinOf(nextValues)
         IN  [value |-> value,
              calls |-> <<PlainCall(state, d, maxPlayer, FALSE, value)>>
                        \o CallsOf(nextRuns)]

\* A call of the inner alpha-beta search: its arguments (alpha and beta as
\* it was given them), whether it ended in the evaluator, and its value.
PrunedCall(state, d, alpha, beta, leaf, value) ==
    [id |-> state.id, depth |-> d, alpha |-> alpha, beta |-> beta,
     leaf |-> leaf, value |-> value]

RECURSIVE minimaxAlphaBetaInner(_, _, _, _, _)
RECURSIVE maximizingLoop(_, _, _, _, _, _, _)
RECURSIVE minimizingLoop(_, _, _, _, _, _, _)

\* maximizingLoop recursing without decrementing the depth.
maximizingLoopSameDepth(possibleStates, x, d, alpha, beta, currentBest, maxPlayer) ==
    IF ~(x <= Len(possibleStates))
    THEN [value |-> currentBest, calls |-> <<>>]
    ELSE LET run == minimaxAlphaBetaInner(possibleStates[x], d, alpha, beta, maxPlayer)
             newBest == MathMax(run.value, currentBest)
             newAlpha == MathMax(run.value, alpha)
         IN  IF newAlpha > beta
             THEN [value |-> newBest, calls |-> run.calls]
             ELSE LET rest == maximizingLoop(possibleStates, x + 1, d, newAlpha,
                                             beta, newBest, maxPlayer)
                  IN  [value |-> rest.value, calls |-> run.calls \o rest.calls]

\* The for loop of a position where the maximizing player moves, from its
\* x-th successor on (the code counts x from 0, sequences here from 1).
maximizingLoop(possibleStates, x, d, alpha, beta, currentBest, maxPlayer) ==
    IF ~(x <= Len(possibleStates))
    THEN [value |-> currentBest, calls |-> <<>>]
    ELSE LET futureState == possibleStates[x]
             run == minimaxAlphaBetaInner(futureState, d - 1, alpha, beta, maxPlayer)
             value == run.value
             newBest == MathMax(value, currentBest)
             newAlpha == MathMax(value, alpha)
         IN  IF newAlpha > beta
             THEN [value |-> newBest, calls |-> run.calls]
             ELSE LET rest == maximizingLoop(possibleStates, x + 1, d, newAlpha,
                                             beta, newBest, maxPlayer)
                  IN  [value |-> rest.value, calls |-> run.calls \o rest.calls]

\* minimizingLoop cutting off as soon as alpha >= beta.
minimizingLoopEager(possibleStates, x, d, alpha, beta, currentBest, maxPlayer) ==
    IF ~(x <= Len(possibleStates))
    THEN [value |-> currentBest, calls |-> <<>>]
    ELSE LET run == minimaxAlphaBetaInner(possibleStates[x], d - 1, alpha, beta, maxPlayer)
             newBest == MathMin(run.value, currentBest)
             newBeta == MathMin(run.value, beta)
         IN  IF alpha >= newBeta
             THEN [value |-> newBest, calls |-> run.calls]
             ELSE LET rest == minimizingLoop(possibleStates, x + 1, d, alpha,
                                             newBeta, newBest, maxPlayer)
                  IN  [value |-> rest.value, calls |-> run.calls \o rest.calls]

\* The for loop of a position where the minimizing player moves.
minimizingLoop(possibleStates, x, d, alpha, beta, currentBest, maxPlayer) ==
    IF ~(x <= Len(possibleStates))
    THEN [value |-> currentBest, calls |-> <<>>]
    ELSE LET futureState == possibleStates[x]
             run == minimaxAlphaBetaInner(futureState, d - 1, alpha, beta, maxPlayer)
             value == run.value
             newBest == MathMin(value, currentBest)
             newBeta == MathMin(value, beta)
         IN  IF alpha > newBeta
             THEN [value |-> newBest, calls |-> run.calls]
             ELSE LET rest == minimizingLoop(possibleStates, x + 1, d, alpha,
                                             newBeta, newBest, maxPlayer)
                  IN  [value |-> rest.value, calls |-> run.calls \o rest.calls]

minimaxAlphaBetaInner(state, d, alpha, beta, maxPlayer) ==
    IF isBaseCase(state, d)
    THEN LET value == heuristic(state, maxPlayer)
         IN  [value |-> value,
              calls |-> <<PrunedCall(state, d, alpha, beta, TRUE, value)>>]
    ELSE LET possibleStates == nextStates(state)
             currentPlayer == nextMovePlayer(state)
             loop == IF currentPlayer = maxPlayer
                     THEN maximizingLoop(possibleStates, 1, d, alpha, beta,
                                         alpha, maxPlayer)
                     ELSE minimizingLoop(possibleStates, 1, d, alpha, beta,
                                         beta, maxPlayer)
         IN  [value |-> loop.value,
              calls |-> <<PrunedCall(state, d, alpha, beta, FALSE, loop.value)>>
                        \o loop.calls]

\* minimaxAlphaBeta starting one ply too deep.
minimaxAlphaBetaDeeper(state, d, maxPlayer) ==
    minimaxAlphaBetaInner(state, d + 1, -10000000, 10000000, maxPlayer)

\* minimaxAlphaBeta starting from a window of +-1000.
minimaxAlphaBetaNarrow(state, d, maxPlayer) ==
    minimaxAlphaBetaInner(state, d, -1000, 1000, maxPlayer)

minimaxAlphaBeta(state, d, maxPlayer) ==
    minimaxAlphaBetaInner(state, d, -10000000, 10000000, maxPlayer)

minimaxWrapper(state, maxPlayer) ==
    minimaxAlphaBeta(state, DEPTH, maxPlayer)

\* --------------------------------------------------------- specification
\* The position under test: the root of the game.
Root == Position(tree, 1)

Fresh ==
    /\ maximizingPlayer \in Players
    /\ op = "none"
    /\ depth = 0
    /\ ret = 0
    /\ calls = <<>>

\* Games of up to MaxNodes positions: the leaves' boards are drawn from
\* LeafBoards, positions that have successors carry no lines yet.
Init ==
    /\ \E n \in 1..MaxNodes : \E lv \in TreeShapes(n) : \E first \in Players :
         \E leafLines \in [LeavesOf(lv) -> LeafBoards] :
            tree = MakeTree(lv, first,
                            Boards(lv, [p \in InnerOf(lv) |-> NoLines], leafLines))
    /\ Fresh

\* Games of up to LinedNodes positions in which every position carries
\* lines: the leaves' boards are drawn from LinedBoards, the others' from
\* LeafBoards.
InitLined ==
    /\ \E n \in 1..LinedNodes : \E lv \in TreeShapes(n) : \E first \in Players :
         \E innerLines \in [InnerOf(lv) -> LeafBoards] :
         \E leafLines \in [LeavesOf(lv) -> LinedBoards] :
            tree = MakeTree(lv, first, Boards(lv, innerLines, leafLines))
    /\ Fresh

\* A single position with no successors, over every board.
InitBoards ==
    /\ \E first \in Players : \E board \in AllBoards :
         tree = MakeTree(<<0>>, first, <<board>>)
    /\ Fresh

CallHeuristic ==
    /\ op = "none"
    /\ op' = "heuristic"
    /\ ret' = heuristic(Root, maximizingPlayer)
    /\ UNCHANGED <<tree, maximizingPlayer, depth, calls>>

CallIsBaseCase ==
    /\ op = "none"
    /\ \E d \in 0..MaxDepth :
         /\ depth' = d
         /\ ret' = isBaseCase(Root, d)
    /\ op' = "isBaseCase"
    /\ UNCHANGED <<tree, maximizingPlayer, calls>>

CallMinimax ==
    /\ op = "none"
    /\ \E d \in 0..MaxDepth :
         LET run == minimax(Root, d, maximizingPlayer)
         IN  /\ depth' = d
             /\ ret' = run.value
             /\ calls' = run.calls
    /\ op' = "minimax"
    /\ UNCHANGED <<tree, maximizingPlayer>>

CallMinimaxAlphaBeta ==
    /\ op = "none"
    /\ \E d \in 0..MaxDepth :
         LET run == minimaxAlphaBeta(Root, d, maximizingPlayer)
         IN  /\ depth' = d
             /\ ret' = run.value
             /\ calls' = run.calls
    /\ op' = "minimaxAlphaBeta"
    /\ UNCHANGED <<tree, maximizingPlayer>>

CallMinimaxWrapper ==
    /\ op = "none"
    /\ LET run == minimaxWrapper(Root, maximizingPlayer)
       IN  /\ depth' = DEPTH
           /\ ret' = run.value
           /\ calls' = run.calls
    /\ op' = "minimaxWrapper"
    /\ UNCHANGED <<tree, maximizingPlayer>>

Next ==
    \/ CallHeuristic
    \/ CallIsBaseCase
    \/ CallMinimax
    \/ CallMinimaxAlphaBeta
    \/ CallMinimaxWrapper

Spec == Init /\ [][Next]_vars

\* The evaluator, the cutoff policy and the plain search alone.
NextPlain ==
    \/ CallHeuristic
    \/ CallIsBaseCase
    \/ CallMinimax

SpecPlain == Init /\ [][NextPlain]_vars

\* The pruned search and the wrapper alone.
NextPruned ==
    \/ CallMinimaxAlphaBeta
    \/ CallMinimaxWrapper

SpecPruned == Init /\ [][NextPruned]_vars

SpecLined == InitLined /\ [][Next]_vars

SpecBoards == InitBoards /\ [][Next]_vars

\* ------------------------------------------------------------ properties
Positions == 1..Len(tree.kids)
Range(seq) == {seq[i] : i \in 1..Len(seq)}
At(id) == Position(tree, id)
HasSuccessors(id) == tree.kids[id] # <<>>
ParentOf(id) == CHOOSE p \in Positions : id \in Range(tree.kids[p])
Searching == op \in {"minimax", "minimaxAlphaBeta", "minimaxWrapper"}
Pruned == op \in {"minimaxAlphaBeta", "minimaxWrapper"}
InWindow(v) == -10000000 < v /\ v < 10000000

\* The plain search on the arguments of the call that was made.
PlainRun == minimax(Root, depth, maximizingPlayer)

\* The call made on position id, when there is one.
CallOn(id) == CHOOSE i \in 1..Len(calls) : calls[i].id = id
Called(id) == \E i \in 1..Len(calls) : calls[i].id = id

\* C1: minimaxAlphaBeta(P, D, M) returns exactly the number minimax(P, D, M)
\* returns, for every position, depth and perspective.
C1_Equivalence ==
    op = "minimaxAlphaBeta" => ret = PlainRun.value

\* C3: when D = 0 or P has no successors, minimax and minimaxAlphaBeta return
\* exactly heuristic(P, M) and search no successor of P; isBaseCase(P, D) is
\* true in exactly those cases.  Stated of the call that was made and of
\* every call the search made below it.
C3_BaseCase ==
    /\ op = "isBaseCase" => (ret <=> (depth = 0 \/ ~HasSuccessors(1)))
    /\ op \in {"minimax", "minimaxAlphaBeta"} /\ (depth = 0 \/ ~HasSuccessors(1)) =>
          /\ ret = heuristic(Root, maximizingPlayer)
          /\ Len(calls) = 1
    /\ op \in {"minimax", "minimaxAlphaBeta"} =>
          \A i \in 1..Len(calls) :
             LET c == calls[i]
                 cut == c.depth = 0 \/ ~HasSuccessors(c.id)
             IN  /\ c.leaf <=> cut
                 /\ cut => /\ c.value = heuristic(At(c.id), maximizingPlayer)
                           /\ \A k \in Range(tree.kids[c.id]) : ~Called(k)

\* A search cut off by depth 0 at a position whose successors would have
\* changed the value.
C3_Witness ==
    /\ op = "minimaxAlphaBeta"
    /\ depth = 0
    /\ HasSuccessors(1)
    /\ ret # 0
    /\ minimaxAlphaBeta(Root, 1, maximizingPlayer).value # ret

\* The game is a single forced line of at most DEPTH plies that ends in a
\* position with no successors holding exactly one line of four of the
\* maximizing player and no other line.
ForcedWin ==
    /\ Len(tree.kids) <= DEPTH + 1
    /\ \A p \in Positions : Len(tree.kids[p]) <= 1
    /\ tree.lines[Len(tree.kids)] = WithLine(NoLines, maximizingPlayer, 4)

\* C4: from a forced line to such a win, the last position evaluates to
\* exactly 100^4 and minimaxWrapper(P, M) returns exactly 100^4.
C4_ForcedWin ==
    op = "minimaxWrapper" /\ ForcedWin =>
       /\ heuristic(At(Len(tree.kids)), maximizingPlayer) = 100000000
       /\ ret = 100000000

\* C5: every call of the pruned search is a call the plain search makes too
\* (same position, same depth), so it makes no more calls.
C5_PrunedWithinPlain ==
    Pruned =>
       LET plain == PlainRun.calls
       IN  /\ \A i \in 1..Len(calls) :
                \E j \in 1..Len(plain) :
                   plain[j].id = calls[i].id /\ plain[j].depth = calls[i].depth
           /\ Len(calls) <= Len(plain)

\* A position with three successors searched two plies deep, every value in
\* play inside the initial window, where the pruned search makes strictly
\* fewer calls than the plain one and returns the same score.
C5_Witness ==
    /\ op = "minimaxAlphaBeta"
    /\ depth >= 2
    /\ Len(tree.kids[1]) > 2
    /\ \A p \in Positions : InWindow(heuristic(At(p), maximizingPlayer))
    /\ Len(calls) < Len(PlainRun.calls)
    /\ ret = PlainRun.value

\* C7: heuristic(P, M) = -heuristic(P, other(M)); it is the weighted count of
\* M's lines of length 2, 3, 4 minus the opponent's; it is 0 on a board
\* without lines.
C7_Antisymmetry ==
    op = "heuristic" =>
       LET mine == tree.lines[1][maximizingPlayer]
           theirs == tree.lines[1][Other(maximizingPlayer)]
       IN  /\ ret = 0 - heuristic(Root, Other(maximizingPlayer))
           /\ ret = (mine[2] * 10000 + mine[3] * 1000000 + mine[4] * 100000000)
                    - (theirs[2] * 10000 + theirs[3] * 1000000
                       + theirs[4] * 100000000)
           /\ tree.lines[1] = NoLines => ret = 0

\* Both players hold lines and the evaluation is not zero.
C7_Witness ==
    /\ op = "heuristic"
    /\ tree.lines[1]["x"][3] > 0
    /\ tree.lines[1]["o"][4] > 0
    /\ ret < 0
    /\ maximizingPlayer = "x"

\* The orders in which the successors of a position can be returned.
Perms(seq) ==
    {t \in [1..Len(seq) -> Range(seq)] :
        \A i, j \in 1..Len(seq) : i # j => t[i] # t[j]}

\* C2: permuting the order in which nextStates() returns the successors of
\* any position changes neither the value of minimax nor the value of
\* minimaxAlphaBeta.
C2_OrderInvariance ==
    \A p \in Positions : \A perm \in Perms(tree.kids[p]) :
       LET permuted == Position([tree EXCEPT !.kids[p] = perm], 1)
       IN  /\ op = "minimax" =>
                minimax(permuted, depth, maximizingPlayer).value = ret
           /\ op = "minimaxAlphaBeta" =>
                minimaxAlphaBeta(permuted, depth, maximizingPlayer).value = ret

SetMax(S) == CHOOSE v \in S : \A w \in S : v >= w
SetMin(S) == CHOOSE v \in S : \A w \in S : v <= w
Weighted(count) == count[2] * 10000 + count[3] * 1000000 + count[4] * 100000000
WithinPlies(d) == {p \in Positions : tree.level[p] <= d}

\* C6: with successors and D >= 1, minimax(P, D, M) is the maximum of
\* minimax(c, D-1, M) over the successors c when P.nextMovePlayer = M and the
\* minimum otherwise (at P and at every position searched below it); every
\* call carries the top-level M and every leaf is evaluated for M; every
\* position within D plies is visited exactly once.
C6_PlainRecurrence ==
    op = "minimax" =>
       /\ HasSuccessors(1) /\ depth >= 1 =>
             LET below == {minimax(At(k), depth - 1, maximizingPlayer).value :
                              k \in Range(tree.kids[1])}
             IN  ret = IF tree.mover[1] = maximizingPlayer
                       THEN SetMax(below) ELSE SetMin(below)
       /\ \A i \in 1..Len(calls) :
             LET c == calls[i]
                 below == {calls[CallOn(k)].value : k \in Range(tree.kids[c.id])}
             IN  /\ c.maximizingPlayer = maximizingPlayer
                 /\ c.leaf =>
                       c.value = Weighted(tree.lines[c.id][maximizingPlayer])
                                 - Weighted(tree.lines[c.id][Other(maximizingPlayer)])
                 /\ ~c.leaf =>
                       /\ \A k \in Range(tree.kids[c.id]) : Called(k)
                       /\ c.value = IF tree.mover[c.id] = maximizingPlayer
                                    THEN SetMax(below) ELSE SetMin(below)
       /\ {calls[i].id : i \in 1..Len(calls)} = WithinPlies(depth)
       /\ Len(calls) = Cardinality(WithinPlies(depth))

\* A two-ply search from a position where the opponent moves, over leaves of
\* different values, some of them at positions where the opponent moves.
C6_Witness ==
    /\ op = "minimax"
    /\ depth = 2
    /\ tree.mover[1] # maximizingPlayer
    /\ Len(tree.kids[1]) >= 2
    /\ \E i, j \in 1..Len(calls) :
          /\ calls[i].leaf /\ calls[j].leaf
          /\ calls[i].value # calls[j].value
          /\ calls[i].value # 0
          /\ calls[i].depth = 1
          /\ calls[j].depth = 0
    /\ ret # 0

\* The calls a call made directly, in call order.
ChildCalls(c) ==
    SelectSeq(calls, LAMBDA e : e.id \in Range(tree.kids[c.id]))

\* alpha and beta as the code holds them at call c before its j-th successor.
AlphaBefore(c, made, j) ==
    IF tree.mover[c.id] = maximizingPlayer
    THEN SetMax({c.alpha} \cup {made[i].value : i \in 1..(j - 1)})
    ELSE c.alpha

BetaBefore(c, made, j) ==
    IF tree.mover[c.id] = maximizingPlayer
    THEN c.beta
    ELSE SetMin({c.beta} \cup {made[i].value : i \in 1..(j - 1)})

StepOK(c) ==
    LET kids == tree.kids[c.id]
        made == ChildCalls(c)
        m == Len(made)
    IN  /\ 1 <= m /\ m <= Len(kids)
        /\ \A j \in 1..m :
              /\ made[j].id = kids[j]
              /\ made[j].alpha = AlphaBefore(c, made, j)
              /\ made[j].beta = BetaBefore(c, made, j)
              /\ AlphaBefore(c, made, j) <= BetaBefore(c, made, j)
        /\ m < Len(kids) => AlphaBefore(c, made, m + 1) > BetaBefore(c, made, m + 1)
        /\ c.value = IF tree.mover[c.id] = maximizingPlayer
                     THEN AlphaBefore(c, made, m + 1)
                     ELSE BetaBefore(c, made, m + 1)

\* C8: at every call that is not cut off, the successors are visited in the
\* order nextStates() returns them; the running best starts at the incoming
\* alpha (M moves) or beta (the opponent moves) and after each successor it
\* and alpha (beta) become the max (min) with the successor's value; each
\* successor is called with the bounds so far; the call returns its running
\* best after the first successor that leaves alpha > beta and visits no
\* later one, and visits every successor while alpha <= beta.
C8_PruningStep ==
    Pruned =>
       /\ calls[1].alpha = -10000000
       /\ calls[1].beta = 10000000
       /\ \A i \in 1..Len(calls) : ~calls[i].leaf => StepOK(calls[i])

\* A position where the opponent moves stops before its last successor, every
\* value in play inside the initial window.
C8_Witness ==
    /\ op = "minimaxAlphaBeta"
    /\ \A p \in Positions : InWindow(heuristic(At(p), maximizingPlayer))
    /\ \E i \in 1..Len(calls) :
          /\ ~calls[i].leaf
          /\ tree.mover[calls[i].id] # maximizingPlayer
          /\ Len(ChildCalls(calls[i])) < Len(tree.kids[calls[i].id])
          /\ calls[i].alpha > -10000000

\* C9: every search ends after at most one call per position within D plies;
\* the first call has the depth it was given (DEPTH for minimaxWrapper),
\* every other call has the depth of its caller less one, no depth is
\* negative, and no call is nested more than D levels below the first.
C9_DepthDiscipline ==
    Searching =>
       /\ Len(calls) >= 1
       /\ calls[1].id = 1
       /\ calls[1].depth = depth
       /\ op = "minimaxWrapper" => depth = DEPTH
       /\ Len(calls) <= Cardinality(WithinPlies(depth))
       /\ \A i \in 1..Len(calls) :
             LET c == calls[i]
             IN  /\ c.depth >= 0
                 /\ tree.level[c.id] <= depth
                 /\ c.id # 1 =>
                       /\ Called(ParentOf(c.id))
                       /\ c.depth = calls[CallOn(ParentOf(c.id))].depth - 1

\* minimaxWrapper on a game deeper than DEPTH: a call at depth 0 on a position
\* that has successors.
C9_Witness ==
    /\ op = "minimaxWrapper"
    /\ \E p \in Positions : tree.level[p] > DEPTH
    /\ \E i \in 1..Len(calls) :
          calls[i].depth = 0 /\ HasSuccessors(calls[i].id)

\* The bound a call's value respects: at least its alpha where M moves, at
\* most its beta where the opponent moves.
RespectsBound(c) ==
    IF tree.mover[c.id] = maximizingPlayer
    THEN c.value >= c.alpha
    ELSE c.value <= c.beta

\* C10 as amended: when minimax(P, D, M) lies strictly between -10000000 and
\* 10000000, minimaxAlphaBeta(P, D, M) returns it; and every inner call that
\* recurses (is not cut off by isBaseCase) and is made with alpha <= beta
\* returns at least its alpha where M moves and at most its beta where the
\* opponent moves.
C10_Window ==
    Pruned =>
       /\ LET v == PlainRun.value IN InWindow(v) => ret = v
       /\ \A i \in 1..Len(calls) :
             ~calls[i].leaf /\ calls[i].alpha <= calls[i].beta =>
                RespectsBound(calls[i])

\* C10 as stated: the same, of every inner call made with alpha <= beta.
C10_Original ==
    Pruned =>
       /\ LET v == PlainRun.value IN InWindow(v) => ret = v
       /\ \A i \in 1..Len(calls) :
             calls[i].alpha <= calls[i].beta => RespectsBound(calls[i])

\* A search whose plain value is inside the window although a leaf it
\* evaluates lies outside, with a recursing call below the first, and with a
\* cut-off call that returns a value inside the window and beyond its bound.
C10_Witness ==
    /\ op = "minimaxAlphaBeta"
    /\ InWindow(PlainRun.value)
    /\ ret = PlainRun.value
    /\ ret # 0
    /\ \E i \in 1..Len(calls) : calls[i].leaf /\ ~InWindow(calls[i].value)
    /\ \E i \in 2..Len(calls) : ~calls[i].leaf
    /\ \E i \in 1..Len(calls) :
          calls[i].leaf /\ InWindow(calls[i].value) /\ ~RespectsBound(calls[i])

====
